---- MODULE Spec2Model ----
(***************************************************************************)
(* Model of the preview host manager: AppManager (src/src/app-manager.ts,  *)
(* lines 1-360) and the HTTP handlers that drive it (src/src/server.ts,    *)
(* lines 276-561), with createStackBlitzPreview                            *)
(* (src/src/stackblitz-preview.ts, lines 6-73) and its endpoint            *)
(* (src/src/server.ts, lines 242-266).                                     *)
(*                                                                         *)
(* The program runs on one JavaScript event loop.  A handler runs without  *)
(* interruption up to its next await on real I/O (a listener starting, a   *)
(* bind probe, a listener closing); every such await is a point where any  *)
(* other handler, timer or I/O completion may run.  Each action below is   *)
(* one such uninterrupted run.  The outcome of an I/O operation is decided *)
(* when it completes.                                                      *)
(***************************************************************************)
EXTENDS Integers, Sequences, FiniteSets, TLC

\* ---- bounds of the model ----
MaxIds == 3          \* app identifiers the front door can hand out
RangeSize == 3       \* ports in the scanned range
MaxCalls == 2        \* createAppServer invocations in progress at once
MaxServers == 3      \* listeners created in one behaviour
MaxTime == 2         \* clock ticks
MaxFaults == 0       \* times a foreign process is found holding a port
MaxListenFaults == 1 \* times a foreign process takes a port between probe and listen

\* ---- program constants ----
maxConcurrentApps == 2
PortStart == 10001
TTL == 1
FailTTL == 0         \* the 300 s a failed session is kept: less than one tick

PortEnd == PortStart + RangeSize - 1
AppIds == 1..MaxIds
Ports == PortStart..PortEnd
CallIds == 1..MaxCalls

NoId == 0
NoPort == 0
NoSrv == 0
NoDef == [createdAt |-> 0 - 1, expiresAt |-> 0 - 1, expiry |-> 0 - 1]
NoSession == [status |-> "none", expiry |-> 0 - 1]

VARIABLES
  now,        \* Date.now()
  apps,       \* AppManager.apps: the Map, in insertion order
  usedPorts,  \* AppManager.usedPorts
  servers,    \* the http.Servers that came to listen, by handle
  timers,     \* pending setTimeout callbacks
  calls,      \* createAppServer invocations, by call number
  cleanups,   \* cleanupAppServer invocations started by a timer, awaiting close
  store,      \* memoryStore.apps
  issued,     \* app identifiers generated so far
  faults,     \* times a foreign process was found holding a port
  out,        \* what the last step answered or completed
  retries,    \* app identifiers whose client was redirected and has yet to retry
  sessions,   \* memoryStore.sessions, by the appId of the session
  preview     \* the POST /api/preview request in progress and its answer

vars == <<now, apps, usedPorts, servers, timers, calls, cleanups, store, issued, faults, out, retries, sessions, preview>>

\* ---- the Map `apps` ----
AppsKeys(a) == {a[i].id : i \in 1..Len(a)}

AppsHas(a, id) == id \in AppsKeys(a)

AppsIndex(a, id) == CHOOSE i \in 1..Len(a) : a[i].id = id

AppsGet(a, id) == a[AppsIndex(a, id)]

\* Map.set: an existing key keeps its position, a new key goes last
AppsSet(a, rec) ==
  IF AppsHas(a, rec.id)
    THEN [a EXCEPT ![AppsIndex(a, rec.id)] = rec]
    ELSE Append(a, rec)

\* Map.delete
AppsDelete(a, id) == SelectSeq(a, LAMBDA r : r.id # id)

\* ---- AppManager helpers ----
RECURSIVE oldestScan(_, _, _, _)
oldestScan(a, i, oldestId, oldestTime) ==
  IF i > Len(a) THEN oldestId
  ELSE IF a[i].createdAt < oldestTime
         THEN oldestScan(a, i + 1, a[i].id, a[i].createdAt)
         ELSE oldestScan(a, i + 1, oldestId, oldestTime)

findOldestAppId(a, t) == oldestScan(a, 1, NoId, t)

getAppPort(a, id) == IF AppsHas(a, id) THEN AppsGet(a, id).port ELSE NoPort

getActiveAppCount(a) == Len(a)

\* as scanPorts, but without the test of usedPorts
scanPortsNoSkip(p, used) == IF p > PortEnd THEN NoPort ELSE p

\* the for loop of findAvailablePort up to its next probe: skip tracked ports
RECURSIVE scanPorts(_, _)
scanPorts(p, used) ==
  IF p > PortEnd THEN NoPort
  ELSE IF p \in used THEN scanPorts(p + 1, used)
  ELSE p

\* ---- the operating system's view of the ports ----
Listening(srvs) == {s \in 1..Len(srvs) : srvs[s].st = "listening"}

BoundPorts(srvs) == {srvs[s].port : s \in Listening(srvs)}

\* ---- call frames ----
IdleCall == [pc |-> "idle", id |-> NoId, createdAt |-> 0, expiresAt |-> 0,
             port |-> NoPort, atCap |-> FALSE, victim |-> NoSrv, err |-> "none",
             from |-> "none"]

\* the promise of a call settles; the frame keeps the outcome and the cause
settled(frame, outcome, cause) ==
  [IdleCall EXCEPT !.pc = outcome, !.err = cause]

\* findAvailablePort from port p on: either a probe is started or it throws
probeFrom(frame, p, used) ==
  IF scanPorts(p, used) = NoPort
    THEN settled([frame EXCEPT !.port = NoPort], "rejected", "No available ports")
    ELSE [frame EXCEPT !.pc = "probing", !.port = scanPorts(p, used)]

\* as timerDelay, but without the clamp
timerDelayUnclamped(expiresAt, t) == expiresAt - t

\* Math.max(timeUntilExpiry, 0)
timerDelay(expiresAt, t) == IF expiresAt - t > 0 THEN expiresAt - t ELSE 0

\* server.close(): a listening server stops listening
closeServer(srvs, s) ==
  IF srvs[s].st = "listening" THEN [srvs EXCEPT ![s].st = "closing"] ELSE srvs

\* ---- createStackBlitzPreview and POST /api/preview ----
\* the request bodies tried: html, css and js may be empty; files is missing,
\* null, or a map that replaces index.html
HtmlInputs == {"", "<p>a</p>", "<p>b</p>"}

CssInputs == {"", "p{}", "b{}"}

JsInputs == {"", "go()"}

FilesInputs == {"undefined", "null", "given"}

NoBackend == [kind |-> "none", id |-> "", msg |-> ""]

\* what csb.sandboxes.create can do: throw, resolve with null, resolve with
\* an object without id, resolve with a sandbox
BackendResponses ==
  {[kind |-> "throws", id |-> "", msg |-> "quota exceeded"],
   [kind |-> "throws", id |-> "", msg |-> ""],
   [kind |-> "null", id |-> "", msg |-> ""],
   [kind |-> "returns", id |-> "", msg |-> ""],
   [kind |-> "returns", id |-> "sb1", msg |-> ""],
   [kind |-> "returns", id |-> "sb2", msg |-> ""]}

NoSent == [indexHtml |-> "", styleCss |-> "", indexJs |-> ""]

\* the files sent to the backend: defaults for empty html and js, then the
\* entries of files over them
sandboxFiles(html, css, js, files) ==
  [indexHtml |-> IF files = "given" THEN "<h1>given</h1>"
                 ELSE IF html = "" THEN "<div id=\"root\"></div>" ELSE html,
   styleCss |-> css,
   indexJs |-> IF js = "" THEN "console.log(\"Preview ready\");" ELSE js]

\* a text is the sequence of its parts; '' is the empty sequence
embedUrl(sandboxId) ==
  <<"https://codesandbox.io/embed/", sandboxId,
    "?view=preview&hidenavigation=1&fontsize=12&codemirror=1">>

embedHtml(url) == <<"<iframe src=\"", url, "\" title=\"AI Live Preview\"></iframe>">>

NoResult ==
  [success |-> FALSE, previewUrl |-> <<>>, embedHtml |-> <<>>, error |-> "", sandboxId |-> ""]

threw(msg) == [thrown |-> TRUE, msg |-> msg, value |-> NoResult]

returned(result) == [thrown |-> FALSE, msg |-> "", value |-> result]

\* as tryBody, but the sandbox id is used without being tested
tryBodyUnvalidated(files, backend) ==
  IF files = "null" THEN threw("Cannot convert undefined or null to object")
  ELSE IF backend.kind = "throws" THEN threw(backend.msg)
  ELSE IF backend.kind = "null" THEN threw("Cannot read properties of null")
  ELSE returned([success |-> TRUE, previewUrl |-> embedUrl(backend.id),
                 embedHtml |-> embedHtml(embedUrl(backend.id)),
                 error |-> "", sandboxId |-> backend.id])

\* the try block of createStackBlitzPreview
tryBody(files, backend) ==
  IF files = "null" THEN threw("Cannot convert undefined or null to object")
  ELSE IF backend.kind = "throws" THEN threw(backend.msg)
  ELSE IF backend.kind = "null" THEN threw("Cannot read properties of null")
  ELSE IF backend.id = "" THEN threw("Failed to get sandbox ID from CodeSandbox")
  ELSE returned([success |-> TRUE, previewUrl |-> embedUrl(backend.id),
                 embedHtml |-> embedHtml(embedUrl(backend.id)),
                 error |-> "", sandboxId |-> backend.id])

\* the try block and its catch
createStackBlitzPreview(files, backend) ==
  IF tryBody(files, backend).thrown
    THEN returned([NoResult EXCEPT !.error = tryBody(files, backend).msg])
    ELSE tryBody(files, backend)

NoResponse ==
  [code |-> 0, success |-> FALSE, previewUrl |-> <<>>, embedHtml |-> <<>>, error |-> ""]

\* POST /api/preview once createStackBlitzPreview has settled
apiPreview(outcome) ==
  IF outcome.thrown
    THEN [NoResponse EXCEPT !.code = 500, !.error = outcome.msg]
  ELSE IF ~outcome.value.success
    THEN [NoResponse EXCEPT !.code = 500,
            !.error = IF outcome.value.error = "" THEN "Preview failed" ELSE outcome.value.error]
  ELSE [code |-> 200, success |-> TRUE, previewUrl |-> outcome.value.previewUrl,
        embedHtml |-> outcome.value.embedHtml, error |-> ""]

NoPreview ==
  [pc |-> "idle", files |-> "undefined", sent |-> NoSent, backend |-> NoBackend,
   outcome |-> returned(NoResult), response |-> NoResponse]

Init ==
  /\ now = 0
  /\ apps = <<>>
  /\ usedPorts = {}
  /\ servers = <<>>
  /\ timers = {}
  /\ calls = [c \in CallIds |-> IdleCall]
  /\ cleanups = {}
  /\ store = [i \in AppIds |-> NoDef]
  /\ issued = {}
  /\ faults = 0
  /\ out = {}
  /\ retries = {}
  /\ sessions = [i \in AppIds |-> NoSession]
  /\ preview = NoPreview

\* ---- what the handlers answer ----
\* as reply, but the failure of createAppServer is not looked at
replyUnchecked(from, id, ok) ==
  [op |-> from, id |-> id, code |-> IF from = "post" THEN 200 ELSE 302]

\* the answer of the handler that awaited createAppServer: the POST answers
\* 200 or 500, the route redirects (302) or answers 500
reply(from, id, ok) ==
  [op |-> from, id |-> id,
   code |-> IF ~ok THEN 500 ELSE IF from = "post" THEN 200 ELSE 302]

\* the clients that follow a redirect written in this step
redirected(answers) == {a.id : a \in {b \in answers : b.code = 302}}

\* the answers written in a step in which the calls of cs may have settled
replies(cs) ==
  {reply(calls[c].from, calls[c].id, FALSE) :
     c \in {d \in cs : calls[d].from # "none" /\ calls'[d].pc = "rejected"}}

\* ---- memoryStore ----
storeCleanup(st, t) == [i \in AppIds |-> IF st[i] # NoDef /\ t > st[i].expiry THEN NoDef ELSE st[i]]

storeSetex(st, id, seconds, data, t) ==
  [storeCleanup(st, t) EXCEPT ![id] =
     [createdAt |-> data.createdAt, expiresAt |-> data.expiresAt, expiry |-> t + seconds]]

\* as storeGet, but the definition is handed out dated from the lookup
storeGetRestamped(st, id, t) ==
  IF storeCleanup(st, t)[id] = NoDef THEN NoDef
  ELSE [createdAt |-> t, expiresAt |-> t + TTL, expiry |-> st[id].expiry]

\* as storeGet, but without cleanup() and without the test of the expiry
storeGetStale(st, id, t) == st[id]

storeGet(st, id, t) == storeCleanup(st, t)[id]

\* as sessionsCleanup, but cleanup() walks the apps map only
sessionsCleanupAppsOnly(ss, t) == ss

\* cleanup() on the sessions map
sessionsCleanup(ss, t) ==
  [i \in AppIds |-> IF ss[i] # NoSession /\ t > ss[i].expiry THEN NoSession ELSE ss[i]]

\* the POST handlers whose createAppServer settles in this step
settlers(cs) ==
  {c \in cs : calls[c].from = "post" /\ calls'[c].pc \in {"resolved", "rejected"}}

\* as sessionsSettle, but the session is marked live whatever the outcome
sessionsSettleLive(cs) ==
  IF settlers(cs) = {} THEN sessions
  ELSE [i \in AppIds |->
         IF \E c \in settlers(cs) : calls[c].id = i
           THEN [status |-> "live", expiry |-> now + TTL]
           ELSE sessionsCleanup(sessions, now)[i]]

\* session.status = 'live' or 'failed', then setex on the sessions map
sessionsSettle(cs) ==
  IF settlers(cs) = {} THEN sessions
  ELSE [i \in AppIds |->
         IF \E c \in settlers(cs) : calls[c].id = i /\ calls'[c].pc = "resolved"
           THEN [status |-> "live", expiry |-> now + TTL]
         ELSE IF \E c \in settlers(cs) : calls[c].id = i
           THEN [status |-> "failed", expiry |-> now + FailTTL]
         ELSE sessionsCleanup(sessions, now)[i]]

\* the cleanup() of that setex, on the apps map
storeSettle(cs) == IF settlers(cs) = {} THEN store ELSE storeCleanup(store, now)

\* ---- createAppServer, from the call to its first await ----
createEntry(c, id, data, from) ==
  LET oldest == findOldestAppId(apps, now)
      atCap == Len(apps) >= maxConcurrentApps
      frame == [IdleCall EXCEPT !.id = id, !.createdAt = data.createdAt,
                                !.expiresAt = data.expiresAt, !.atCap = atCap,
                                !.from = from]
  IN IF atCap /\ oldest # NoId
       THEN /\ servers' = closeServer(servers, AppsGet(apps, oldest).srv)
            /\ calls' = [calls EXCEPT ![c] =
                 [frame EXCEPT !.pc = "evicting", !.victim = AppsGet(apps, oldest).srv]]
       ELSE /\ servers' = servers
            /\ calls' = [calls EXCEPT ![c] = probeFrom(frame, PortStart, usedPorts)]

\* uuidv4: an identifier never handed out before.  The program only ever
\* tests identifiers for equality, so they are handed out in increasing order.
freshId(used) == Cardinality(used) + 1

Finished(c) == calls[c].pc \in {"idle", "resolved", "rejected"}

\* a call made now can come to start a listener: it evicts, or a port of the
\* range is not in usedPorts
mayListen ==
  \/ scanPorts(PortStart, usedPorts) # NoPort
  \/ Len(apps) >= maxConcurrentApps /\ findOldestAppId(apps, now) # NoId

\* a call frame is free once its call has settled; listeners are bounded
FreeCall(c) ==
  /\ Finished(c)
  /\ \A d \in CallIds : d < c => ~Finished(d)
  /\ mayListen =>
       Len(servers) + Cardinality({d \in CallIds : calls[d].pc \in {"evicting", "probing", "listening"}}) < MaxServers

\* POST /api/preview/create
PostCreate(c, id) ==
  /\ FreeCall(c)
  /\ id = freshId(issued)
  /\ id \in AppIds
  /\ issued' = issued \cup {id}
  /\ LET userApp == [createdAt |-> now, expiresAt |-> now + TTL]
     IN /\ store' = storeSetex(store, id, TTL, userApp, now)
        /\ createEntry(c, id, userApp, "post")
  /\ out' = IF calls'[c].pc = "rejected" THEN {reply("post", id, FALSE)} ELSE {}
  /\ sessions' = [sessionsCleanup(sessions, now) EXCEPT ![id] =
       IF calls'[c].pc = "rejected"
         THEN [status |-> "failed", expiry |-> now + FailTTL]
         ELSE [status |-> "creating", expiry |-> now + TTL]]
  /\ UNCHANGED <<preview, now, apps, usedPorts, timers, cleanups, faults, retries>>

\* /preview/:appId with no registered instance
\* a request for id arrives: a new one, or the retry of a redirected one.  The
\* handler is the same for both
arrives(id, retry) ==
  /\ id \in AppIds
  /\ retry => id \in retries
  /\ retries' = IF retry THEN retries \ {id} ELSE retries

RouteMiss(c, id, retry) ==
  /\ FreeCall(c)
  /\ arrives(id, retry)
  /\ getAppPort(apps, id) = NoPort
  /\ store' = storeCleanup(store, now)
  /\ sessions' = sessionsCleanup(sessions, now)
  /\ IF storeGet(store, id, now) = NoDef
       THEN /\ out' = {[op |-> "route", id |-> id, code |-> 404]}
            /\ UNCHANGED <<servers, calls>>
       ELSE /\ createEntry(c, id, storeGet(store, id, now), "route")
            /\ out' = IF calls'[c].pc = "rejected" THEN {reply("route", id, FALSE)} ELSE {}
  /\ UNCHANGED <<preview, now, apps, usedPorts, timers, cleanups, issued, faults>>

\* /preview/:appId with a registered instance: the request is handed to a
\* proxy whose target is the registered port
RouteHit(id, retry) ==
  /\ arrives(id, retry)
  /\ getAppPort(apps, id) # NoPort
  /\ out' = {[op |-> "proxy", id |-> id, code |-> getAppPort(apps, id)]}
  /\ UNCHANGED <<preview, now, apps, usedPorts, servers, timers, calls, cleanups, store, issued, faults, sessions>>

\* a bind on port p fails: one of the manager's listeners holds the port, or
\* a foreign process does
foreign(p) ==
  IF p \in BoundPorts(servers)
    THEN faults' = faults
    ELSE faults < MaxFaults /\ faults' = faults + 1

\* the bind probe of findAvailablePort reports the port free: the port is
\* returned and server.listen(port) is called
ProbeFree(c) ==
  /\ calls[c].pc = "probing"
  /\ calls[c].port \notin BoundPorts(servers)
  /\ calls' = [calls EXCEPT ![c].pc = "listening"]
  /\ out' = {}
  /\ UNCHANGED <<preview, now, apps, usedPorts, servers, timers, cleanups, store, issued, faults, retries, sessions>>

\* the bind probe reports an error (the port is bound by one of the manager's
\* listeners or by a foreign process): the loop goes on to the next port
ProbeBusy(c) ==
  /\ calls[c].pc = "probing"
  /\ foreign(calls[c].port)
  /\ calls' = [calls EXCEPT ![c] = probeFrom(calls[c], calls[c].port + 1, usedPorts)]
  /\ out' = replies({c})
  /\ store' = storeSettle({c})
  /\ sessions' = sessionsSettle({c})
  /\ UNCHANGED <<preview, now, apps, usedPorts, servers, timers, cleanups, issued, retries>>

\* as ListenOk, but the callback arms no expiry timer
ListenOkNoTimer(c) ==
  /\ calls[c].pc = "listening"
  /\ calls[c].port \notin BoundPorts(servers)
  /\ servers' = Append(servers, [id |-> calls[c].id, port |-> calls[c].port,
                                 expiresAt |-> calls[c].expiresAt, st |-> "listening"])
  /\ apps' = AppsSet(apps, [id |-> calls[c].id, port |-> calls[c].port,
                            srv |-> Len(servers) + 1,
                            createdAt |-> calls[c].createdAt,
                            expiresAt |-> calls[c].expiresAt])
  /\ usedPorts' = usedPorts \cup {calls[c].port}
  /\ calls' = [calls EXCEPT ![c] = settled(calls[c], "resolved", "none")]
  /\ out' = {reply(calls[c].from, calls[c].id, TRUE)}
  /\ retries' = retries \cup redirected(out')
  /\ store' = storeSettle({c})
  /\ sessions' = sessionsSettle({c})
  /\ UNCHANGED <<preview, now, timers, cleanups, issued, faults>>

\* the callback of server.listen runs
ListenOk(c) ==
  /\ calls[c].pc = "listening"
  /\ calls[c].port \notin BoundPorts(servers)
  /\ servers' = Append(servers, [id |-> calls[c].id, port |-> calls[c].port,
                                 expiresAt |-> calls[c].expiresAt, st |-> "listening"])
  /\ apps' = AppsSet(apps, [id |-> calls[c].id, port |-> calls[c].port,
                            srv |-> Len(servers) + 1,
                            createdAt |-> calls[c].createdAt,
                            expiresAt |-> calls[c].expiresAt])
  /\ usedPorts' = usedPorts \cup {calls[c].port}
  /\ timers' = timers \cup {[id |-> calls[c].id, srv |-> Len(servers) + 1,
                             at |-> now + timerDelay(calls[c].expiresAt, now)]}
  /\ calls' = [calls EXCEPT ![c] = settled(calls[c], "resolved", "none")]
  /\ out' = {reply(calls[c].from, calls[c].id, TRUE)}
  /\ retries' = retries \cup redirected(out')
  /\ store' = storeSettle({c})
  /\ sessions' = sessionsSettle({c})
  /\ UNCHANGED <<preview, now, cleanups, issued, faults>>

\* the server emits 'error' (the port is bound by one of the manager's
\* listeners or by a foreign process): reject
ListenError(c) ==
  /\ calls[c].pc = "listening"
  /\ foreign(calls[c].port)
  /\ calls' = [calls EXCEPT ![c] = settled(calls[c], "rejected", "listen")]
  /\ out' = replies({c})
  /\ store' = storeSettle({c})
  /\ sessions' = sessionsSettle({c})
  /\ UNCHANGED <<preview, now, apps, usedPorts, servers, timers, cleanups, issued, retries>>

\* the server emits 'error' because a foreign process has bound the port since
\* the probe found it free: reject
ListenErrorForeign(c) ==
  /\ calls[c].pc = "listening"
  /\ calls[c].port \notin BoundPorts(servers)
  /\ faults < MaxFaults + MaxListenFaults
  /\ faults' = faults + 1
  /\ calls' = [calls EXCEPT ![c] = settled(calls[c], "rejected", "listen")]
  /\ out' = replies({c})
  /\ store' = storeSettle({c})
  /\ sessions' = sessionsSettle({c})
  /\ UNCHANGED <<preview, now, apps, usedPorts, servers, timers, cleanups, issued, retries>>

\* as TimerFire, but without the test `if (app)`: with no registered instance
\* the listener the timer was armed for is closed
TimerFireUnguarded(t) ==
  /\ t \in timers
  /\ now >= t.at
  /\ timers' = timers \ {t}
  /\ LET s == IF AppsHas(apps, t.id) THEN AppsGet(apps, t.id).srv ELSE t.srv
     IN /\ servers' = closeServer(servers, s)
        /\ cleanups' = cleanups \cup {[id |-> t.id, srv |-> s, tm |-> t.srv]}
  /\ out' = IF AppsHas(apps, t.id) THEN {} ELSE {[op |-> "cleanup", id |-> t.id, code |-> 0]}
  /\ UNCHANGED <<preview, now, apps, usedPorts, calls, store, issued, faults, retries, sessions>>

\* the expiry timer fires: cleanupAppServer(appId) up to its await
TimerFire(t) ==
  /\ t \in timers
  /\ now >= t.at
  /\ timers' = timers \ {t}
  /\ IF AppsHas(apps, t.id)
       THEN /\ servers' = closeServer(servers, AppsGet(apps, t.id).srv)
            /\ cleanups' = cleanups \cup {[id |-> t.id, srv |-> AppsGet(apps, t.id).srv, tm |-> t.srv]}
            /\ out' = {}
       ELSE /\ out' = {[op |-> "cleanup", id |-> t.id, code |-> 0]}
            /\ UNCHANGED <<servers, cleanups>>
  /\ UNCHANGED <<preview, now, apps, usedPorts, calls, store, issued, faults, retries, sessions>>

\* as ServerClosed, but only the invocations started by a timer are called
\* back: a createAppServer evicting the same instance is left waiting
ServerClosedTimersOnly(s) ==
  /\ s \in 1..Len(servers)
  /\ servers[s].st = "closing"
  /\ servers' = [servers EXCEPT ![s].st = "closed"]
  /\ usedPorts' = usedPorts \ {servers[s].port}
  /\ apps' = AppsDelete(apps, servers[s].id)
  /\ cleanups' = {k \in cleanups : k.srv # s}
  /\ out' = {}
  /\ UNCHANGED <<preview, now, timers, calls, store, issued, faults, retries, sessions>>

\* 'close' is emitted for server s: every cleanupAppServer awaiting it resumes
\* (usedPorts.delete, apps.delete), and a createAppServer that was evicting
\* goes on to findAvailablePort
ServerClosed(s) ==
  /\ s \in 1..Len(servers)
  /\ servers[s].st = "closing"
  /\ servers' = [servers EXCEPT ![s].st = "closed"]
  /\ usedPorts' = usedPorts \ {servers[s].port}
  /\ apps' = AppsDelete(apps, servers[s].id)
  /\ cleanups' = {k \in cleanups : k.srv # s}
  /\ calls' = [c \in CallIds |->
       IF calls[c].pc = "evicting" /\ calls[c].victim = s
         THEN probeFrom(calls[c], PortStart, usedPorts')
         ELSE calls[c]]
  /\ out' = replies(CallIds)
  /\ store' = storeSettle(CallIds)
  /\ sessions' = sessionsSettle(CallIds)
  /\ UNCHANGED <<preview, now, timers, issued, faults, retries>>

Tick ==
  /\ now < MaxTime
  /\ now' = now + 1
  /\ out' = {}
  /\ UNCHANGED <<preview, apps, usedPorts, servers, timers, calls, cleanups, store, issued, faults, retries, sessions>>

Next ==
  \/ \E c \in CallIds, id \in AppIds : PostCreate(c, id)
  \/ \E c \in CallIds, id \in AppIds, retry \in BOOLEAN : RouteMiss(c, id, retry)
  \/ \E id \in AppIds, retry \in BOOLEAN : RouteHit(id, retry)
  \/ \E c \in CallIds : ProbeFree(c)
  \/ \E c \in CallIds : ProbeBusy(c)
  \/ \E c \in CallIds : ListenOk(c)
  \/ \E c \in CallIds : ListenError(c)
  \/ \E t \in timers : TimerFire(t)
  \/ \E s \in 1..Len(servers) : ServerClosed(s)
  \/ Tick

Spec == Init /\ [][Next]_vars

\* GET /api/preview/status/:sessionId: memoryStore.get on the sessions map; the
\* answer is 404 or the session as stored, with its status
Status(id) ==
  /\ id \in AppIds
  /\ store' = storeCleanup(store, now)
  /\ sessions' = sessionsCleanup(sessions, now)
  /\ out' = IF sessions'[id] = NoSession
              THEN {[op |-> "status", id |-> id, code |-> 404]}
              ELSE {[op |-> sessions'[id].status, id |-> id, code |-> 200]}
  /\ UNCHANGED <<preview, now, apps, usedPorts, servers, timers, calls, cleanups, issued, faults, retries>>

\* ---- the manager next to a foreign process that binds ports ----
\* the clients create previews and ask for their status, and a listener may
\* find its port taken
ForeignNext ==
  \/ \E c \in CallIds, id \in AppIds : PostCreate(c, id)
  \/ \E c \in CallIds : ProbeFree(c)
  \/ \E c \in CallIds : ProbeBusy(c)
  \/ \E c \in CallIds : ListenOk(c)
  \/ \E c \in CallIds : ListenError(c)
  \/ \E c \in CallIds : ListenErrorForeign(c)
  \/ \E id \in AppIds : Status(id)
  \/ \E t \in timers : TimerFire(t)
  \/ \E s \in 1..Len(servers) : ServerClosed(s)
  \/ Tick

ForeignSpec == Init /\ [][ForeignNext]_vars

\* ---- the manager serving /preview requests for a reclaimed app ----
\* the state once the app created first has been reclaimed by its timer, its
\* definition still being in storage
RehydrateInit ==
  /\ now = TTL
  /\ apps = <<>>
  /\ usedPorts = {}
  /\ servers = <<[id |-> 1, port |-> PortStart, expiresAt |-> TTL, st |-> "closed"]>>
  /\ timers = {}
  /\ calls = [c \in CallIds |-> IF c = 1 THEN settled(IdleCall, "resolved", "none") ELSE IdleCall]
  /\ cleanups = {}
  /\ store = [i \in AppIds |->
                IF i = 1 THEN [createdAt |-> 0, expiresAt |-> TTL, expiry |-> TTL] ELSE NoDef]
  /\ issued = {1}
  /\ faults = 0
  /\ out = {}
  /\ retries = {}
  /\ sessions = [i \in AppIds |->
                   IF i = 1 THEN [status |-> "live", expiry |-> TTL] ELSE NoSession]
  /\ preview = NoPreview

\* the clients only request previews
RehydrateNext ==
  \/ \E c \in CallIds, id \in AppIds, retry \in BOOLEAN : RouteMiss(c, id, retry)
  \/ \E id \in AppIds, retry \in BOOLEAN : RouteHit(id, retry)
  \/ \E c \in CallIds : ProbeFree(c)
  \/ \E c \in CallIds : ProbeBusy(c)
  \/ \E c \in CallIds : ListenOk(c)
  \/ \E c \in CallIds : ListenError(c)
  \/ \E t \in timers : TimerFire(t)
  \/ \E s \in 1..Len(servers) : ServerClosed(s)
  \/ Tick

RehydrateSpec == RehydrateInit /\ [][RehydrateNext]_vars

\* ---- POST /api/preview on its own ----
\* the handler up to the await of csb.sandboxes.create; with files null the
\* try block throws before the backend is called and the request is answered
PreviewRequest(html, css, js, files) ==
  /\ preview.pc \in {"idle", "answered"}
  /\ preview' =
       IF files = "null"
         THEN [NoPreview EXCEPT !.pc = "answered", !.files = files,
                 !.outcome = createStackBlitzPreview(files, NoBackend),
                 !.response = apiPreview(createStackBlitzPreview(files, NoBackend))]
         ELSE [NoPreview EXCEPT !.pc = "awaiting", !.files = files,
                 !.sent = sandboxFiles(html, css, js, files)]
  /\ UNCHANGED <<now, apps, usedPorts, servers, timers, calls, cleanups, store, issued, faults, out, retries, sessions>>

\* csb.sandboxes.create settles: the function returns and the handler answers
BackendAnswers(b) ==
  /\ preview.pc = "awaiting"
  /\ preview' = [preview EXCEPT !.pc = "answered", !.backend = b,
                   !.outcome = createStackBlitzPreview(preview.files, b),
                   !.response = apiPreview(createStackBlitzPreview(preview.files, b))]
  /\ UNCHANGED <<now, apps, usedPorts, servers, timers, calls, cleanups, store, issued, faults, out, retries, sessions>>

PreviewNext ==
  \/ \E html \in HtmlInputs, css \in CssInputs, js \in JsInputs, files \in FilesInputs :
       PreviewRequest(html, css, js, files)
  \/ \E b \in BackendResponses : BackendAnswers(b)

PreviewSpec == Init /\ [][PreviewNext]_vars

\* ---- shorthands for the properties ----
\* every timer createAppServer can arm
TimerSet == [id : AppIds, srv : 1..MaxServers, at : 0..(MaxTime + TTL)]

RegisteredPorts == {apps[i].port : i \in 1..Len(apps)}

TypeOK ==
  /\ now \in 0..MaxTime
  /\ usedPorts \subseteq Ports
  /\ issued \subseteq AppIds
  /\ faults \in 0..(MaxFaults + MaxListenFaults)
  /\ Len(servers) <= MaxServers
  /\ \A c \in CallIds : calls[c].pc \in {"idle", "evicting", "probing", "listening", "resolved", "rejected"}
  /\ preview.pc \in {"idle", "awaiting", "answered"}

\* C1: the number of registered instances never exceeds maxConcurrentApps
C1_CapacityNeverExceeded == getActiveAppCount(apps) <= maxConcurrentApps

\* C2: usedPorts is exactly the set of ports held by registered instances
C2_PortPoolIsRegistry == usedPorts = RegisteredPorts

\* C3: no two distinct registered instances hold the same port
C3_PortsExclusive ==
  \A i, j \in 1..Len(apps) : i # j => apps[i].port # apps[j].port

\* the cleanupAppServer invocations awaiting the close of server s
Awaiting(s) ==
  Cardinality({k \in cleanups : k.srv = s})
    + Cardinality({c \in CallIds : calls[c].pc = "evicting" /\ calls[c].victim = s})

\* C4: a call made while the registry is full evicts the instance with the
\* smallest createdAt, and when it resolves the new appId has a port and the
\* evicted appId has none
C4_EvictOldestThenAdmit ==
  [][\A c \in CallIds :
       /\ (Finished(c) /\ calls'[c].atCap) =>
            /\ calls'[c].victim # NoSrv
            /\ \A i \in 1..Len(apps) :
                 apps[i].createdAt >= AppsGet(apps, servers[calls'[c].victim].id).createdAt
       /\ (calls[c].pc = "listening" /\ calls[c].atCap /\ calls'[c].pc = "resolved") =>
            /\ calls[c].victim # NoSrv
            /\ getAppPort(apps', calls[c].id) # NoPort
            /\ getAppPort(apps', servers[calls[c].victim].id) = NoPort]_vars

\* C5: two cleanupAppServer invocations awaiting the same instance: the
\* listener is torn down once, all of them complete when it has closed, and
\* the port leaves usedPorts in that one step
C5_ConcurrentCleanupOnce ==
  [][\A s \in 1..Len(servers) :
       /\ servers[s].st = "closed" => servers'[s] = servers[s]
       /\ Awaiting(s) >= 2 =>
            /\ servers[s].st = "closing"
            /\ servers'[s].st \in {"closing", "closed"}
            /\ servers'[s].st = "closing" => Awaiting(s)' >= Awaiting(s)
            /\ servers'[s].st = "closed" =>
                 /\ Awaiting(s)' = 0
                 /\ usedPorts' = usedPorts \ {servers[s].port}
                 /\ servers[s].port \notin usedPorts'
                 /\ ~AppsHas(apps', servers[s].id)
                 /\ \A c \in CallIds :
                      (calls[c].pc = "evicting" /\ calls[c].victim = s)
                        => calls'[c].err # "listen" /\ calls'[c].pc \in {"probing", "rejected"}]_vars

C5_Witness ==
  \E s \in 1..Len(servers) :
    /\ \E k \in cleanups : k.srv = s
    /\ \E c \in CallIds : calls[c].pc = "evicting" /\ calls[c].victim = s

\* C7: the timer of an instance that has been reclaimed never fires
C7_ReclaimedTimerNeverFires ==
  [][\A t \in timers : t \notin timers' => servers[t.srv].st # "closed"]_vars

\* C8: two calls in progress never hold the same port from findAvailablePort
C8_PortReservedForCall ==
  \A c, d \in CallIds :
    (c # d /\ calls[c].pc = "listening" /\ calls[d].pc = "listening")
      => calls[c].port # calls[d].port

\* C9: at most one listening server per app identifier
C9_OneListenerPerApp ==
  \A s, r \in Listening(servers) : s # r => servers[s].id # servers[r].id

\* C10: when the listener fails to start the call rejects with the cause, is
\* not retried, and afterwards the chosen port is not in usedPorts and the
\* appId has neither a registry entry nor a timer
C10_ListenFailureLeavesNothing ==
  [][\A c \in CallIds :
       (calls[c].pc = "listening" /\ calls'[c].pc # "listening" /\ calls'[c].pc # "resolved") =>
          /\ calls'[c].pc = "rejected"
          /\ calls'[c].err = "listen"
          /\ calls[c].port \notin usedPorts'
          /\ ~AppsHas(apps', calls[c].id)
          /\ \A t \in timers' : t.id # calls[c].id]_vars

\* C11: a call made at capacity whose eviction step removes no instance fails
\* and registers nothing
C11_NoVictimNoAdmission ==
  [][\A c \in CallIds :
       (calls[c].pc = "listening" /\ calls[c].atCap /\ calls[c].victim = NoSrv)
         => /\ calls'[c].pc # "resolved"
            /\ (calls'[c].pc # "listening" => apps' = apps)]_vars

\* the holders of a port handed out by findAvailablePort and not released:
\* calls waiting for their listener, and registered instances
Reservations ==
  Cardinality({c \in CallIds : calls[c].pc = "listening"}) + Len(apps)

ReservedPorts ==
  {calls[c].port : c \in {d \in CallIds : calls[d].pc = "listening"}} \cup RegisteredPorts

\* C12: reservations with no release in between hold pairwise distinct ports
\* (R of them exhaust a range of R ports), and a call that finds no port left
\* rejects with 'No available ports'
C12_DistinctUntilExhausted ==
  [][/\ Cardinality(ReservedPorts') = Reservations'
     /\ \A c \in CallIds :
          (calls[c].pc \in {"idle", "resolved", "rejected", "evicting", "probing"}
             /\ calls'[c] # calls[c] /\ calls'[c].pc = "rejected")
            => calls'[c].err = "No available ports"]_vars

\* C14: registering an instance adds exactly its port and its entry, and
\* reclaiming it removes exactly that port and that entry, so that the pair
\* leaves usedPorts and the registry as they were
C14_ReserveReleaseRoundTrip ==
  [][\A s \in 1..Len(servers') :
       /\ s > Len(servers) =>
            /\ servers'[s].port \notin usedPorts
            /\ usedPorts' = usedPorts \cup {servers'[s].port}
            /\ ~AppsHas(apps, servers'[s].id)
            /\ apps' = Append(apps, AppsGet(apps', servers'[s].id))
       /\ (s <= Len(servers) /\ servers[s].st = "closing" /\ servers'[s].st = "closed") =>
            /\ servers[s].port \in usedPorts
            /\ usedPorts' = usedPorts \ {servers[s].port}
            /\ AppsHas(apps, servers[s].id)
            /\ AppsGet(apps, servers[s].id).srv = s
            /\ apps' = AppsDelete(apps, servers[s].id)]_vars

\* C20: the port of an instance is in usedPorts while the instance is starting,
\* running or being reclaimed, and is not once it has been reclaimed
C20_PortHeldWhileAlive ==
  /\ \A c \in CallIds : calls[c].pc = "listening" => calls[c].port \in usedPorts
  /\ \A s \in 1..Len(servers) :
       servers[s].st \in {"listening", "closing"} => servers[s].port \in usedPorts

\* C13: cleanupAppServer for an appId with no registered instance completes at
\* once and changes neither the registry, usedPorts nor any instance, however
\* many times it is called
C13_CleanupOfAbsentIsNoOp ==
  [][\A t \in timers :
       (t \notin timers' /\ ~AppsHas(apps, t.id)) =>
          /\ apps' = apps
          /\ usedPorts' = usedPorts
          /\ servers' = servers
          /\ calls' = calls
          /\ cleanups' = cleanups
          /\ timers' = timers \ {t}
          /\ out' = {[op |-> "cleanup", id |-> t.id, code |-> 0]}]_vars

\* a cleanup has completed for an appId that is not registered, its instance
\* having been reclaimed before
C13_Witness ==
  \E a \in out : /\ a.op = "cleanup"
                 /\ ~AppsHas(apps, a.id)
                 /\ \E s \in 1..Len(servers) : servers[s].id = a.id /\ servers[s].st = "closed"

\* the definition of id is absent from storage or past its expiry
NoLiveDef(id) == store[id] = NoDef \/ now > store[id].expiry

\* C15: a /preview request for an unregistered appId whose definition is
\* absent or expired is answered 404, starts no createAppServer, evicts
\* nothing and leaves the registry and usedPorts unchanged
C15_MissWithoutDefinitionIs404 ==
  [][\A id \in AppIds :
       /\ (\E a \in out' : a.op = "route" /\ a.id = id /\ a.code = 404) =>
            /\ getAppPort(apps, id) = NoPort
            /\ NoLiveDef(id)
            /\ apps' = apps /\ usedPorts' = usedPorts /\ servers' = servers
            /\ calls' = calls /\ timers' = timers /\ cleanups' = cleanups
       /\ (getAppPort(apps, id) = NoPort /\ NoLiveDef(id) /\ (id \in issued \/ id \notin issued')) =>
            /\ \A c \in CallIds : (calls'[c] # calls[c] /\ calls'[c].id = id) => calls[c].id = id
            /\ \A a \in out' : (a.op = "route" /\ a.id = id /\ calls' = calls) => a.code = 404]_vars

\* a 404 for an issued identifier whose definition has expired
C15_Witness ==
  \E a \in out : a.op = "route" /\ a.code = 404 /\ a.id \in issued /\ now > TTL

C17_RetryNeverRehydrates ==
  [][\A id \in retries : id \notin retries' => calls' = calls]_vars

\* C18: a request is forwarded only to a port on which the instance of its
\* appId is listening
C18_ForwardOnlyToListener ==
  [][\A a \in out' :
       a.op = "proxy" =>
         \E s \in Listening(servers) : servers[s].id = a.id /\ servers[s].port = a.code]_vars

\* C19: a session is stored as creating at submission and its status changes
\* once, when the createAppServer of its POST settles: to live if and only if
\* the call resolved, to failed otherwise
C19_SessionStatusOnce ==
  [][\A id \in AppIds :
       LET old == sessions[id].status
           new == sessions'[id].status
           resolves == \E c \in CallIds : /\ calls[c].from = "post" /\ calls[c].id = id
                                          /\ calls'[c].pc = "resolved"
           rejects == \E c \in CallIds : /\ calls[c].from = "post" /\ calls[c].id = id
                                         /\ calls'[c].pc = "rejected"
           submitted == id \notin issued /\ id \in issued'
           rejectedAtOnce == \E c \in CallIds : calls'[c] # calls[c] /\ calls'[c].pc = "rejected"
       IN /\ submitted => new = (IF rejectedAtOnce THEN "failed" ELSE "creating")
          /\ resolves => new = "live"
          /\ rejects => new = "failed"
          /\ (new # old /\ ~submitted) =>
               \/ old \in {"creating", "none"} /\ new = "live" /\ resolves
               \/ old \in {"creating", "none"} /\ new = "failed" /\ rejects
               \/ new = "none" /\ now > sessions[id].expiry]_vars

\* sessions of all three kinds: still creating, live, failed
C19_Witness ==
  \E i, j, k \in AppIds :
    /\ sessions[i].status = "creating"
    /\ sessions[j].status = "live"
    /\ sessions[k].status = "failed"

\* a createAppServer call is made in this step on frame c
Called(c) == Finished(c) /\ calls'[c] # calls[c]

\* C21: the victim chosen at capacity has the smallest createdAt of the
\* registry and, among the instances that share it, the smallest identifier,
\* whatever the order of registration
C21_VictimIsOldestThenSmallestId ==
  [][\A c \in CallIds :
       (Called(c) /\ calls'[c].pc = "evicting") =>
          LET v == AppsGet(apps, servers[calls'[c].victim].id)
          IN \A i \in 1..Len(apps) :
               \/ v.createdAt < apps[i].createdAt
               \/ v.createdAt = apps[i].createdAt /\ v.id <= apps[i].id]_vars

\* C22: a call made below capacity evicts nothing, and every instance that is
\* registered when it resolves stays registered on the same port; a call made
\* at capacity evicts exactly one instance
C22_AdmitOrEvictExactlyOne ==
  [][\A c \in CallIds :
       /\ (Called(c) /\ Len(apps) < maxConcurrentApps) =>
            /\ calls'[c].pc # "evicting"
            /\ servers' = servers
       /\ (Called(c) /\ Len(apps) >= maxConcurrentApps) =>
            /\ calls'[c].pc = "evicting"
            /\ calls'[c].victim \in 1..Len(servers)
            /\ servers'[calls'[c].victim].st = "closing"
            /\ \A s \in 1..Len(servers) : s # calls'[c].victim => servers'[s] = servers[s]
       /\ (calls[c].pc = "listening" /\ ~calls[c].atCap /\ calls'[c].pc = "resolved") =>
            \A i \in 1..Len(apps) :
              getAppPort(apps', apps[i].id) = apps[i].port]_vars

life(srvs, a, s) ==
  IF srvs[s].st = "closed" THEN "Reclaimed"
  ELSE IF srvs[s].st = "closing" THEN "Expiring"
  ELSE IF AppsHas(a, srvs[s].id) /\ AppsGet(a, srvs[s].id).srv = s THEN "Running"
  ELSE "Untracked"

\* C24: an instance starts only from a call that was waiting for its listener
\* and starts as Running; a call that fails starts none; afterwards an
\* instance goes only from Running to Expiring or Reclaimed and from Expiring
\* to Reclaimed, and a port is released only by the instance being reclaimed
C24_LifecycleTransitions ==
  [][/\ \A s \in 1..Len(servers') :
          IF s > Len(servers)
            THEN /\ life(servers', apps', s) = "Running"
                 /\ \E c \in CallIds : /\ calls[c].pc = "listening" /\ calls'[c].pc = "resolved"
                                       /\ calls[c].id = servers'[s].id
            ELSE \/ life(servers', apps', s) = life(servers, apps, s)
                 \/ /\ life(servers, apps, s) = "Running"
                    /\ life(servers', apps', s) \in {"Expiring", "Reclaimed"}
                 \/ /\ life(servers, apps, s) = "Expiring"
                    /\ life(servers', apps', s) = "Reclaimed"
     /\ \A c \in CallIds : calls'[c].pc = "rejected" /\ calls[c].pc # "rejected"
                             => Len(servers') = Len(servers)
     /\ \A p \in usedPorts \ usedPorts' :
          \E s \in 1..Len(servers) : /\ servers[s].port = p
                                     /\ servers[s].st = "closing"
                                     /\ servers'[s].st = "closed"]_vars

\* C27: the timer of a new instance is armed for max(expiresAt - now, 0): an
\* instance whose expiresAt has passed is registered all the same, with a
\* timer that is due at once
C27_TimerClampedAtZero ==
  [][\A c \in CallIds :
       (calls[c].pc = "listening" /\ calls'[c].pc = "resolved") =>
          LET s == Len(servers) + 1
              due == IF calls[c].expiresAt > now THEN calls[c].expiresAt ELSE now
          IN /\ Len(servers') = s
             /\ AppsHas(apps', calls[c].id)
             /\ AppsGet(apps', calls[c].id).srv = s
             /\ timers' = timers \cup {[id |-> calls[c].id, srv |-> s, at |-> due]}
             /\ \E t \in timers' : t.srv = s /\ t.at - now = timerDelay(calls[c].expiresAt, now)
             /\ calls[c].expiresAt <= now => \E t \in timers' : t.srv = s /\ now >= t.at]_vars

\* an instance registered after its expiresAt, with its timer due
C27_Witness ==
  \E i \in 1..Len(apps) :
    /\ servers[apps[i].srv].st = "listening"
    /\ \E t \in timers : /\ t.srv = apps[i].srv /\ t.id = apps[i].id
                         /\ t.at > apps[i].expiresAt /\ t.at = now
    /\ \E a \in out : a.id = apps[i].id /\ a.code \in {200, 302}

\* C28: a session record never expires later than the expiresAt of its
\* instance, whether it is stored as creating, as live or as failed
C28_SessionNotLaterThanInstance ==
  [][\A id \in AppIds :
       /\ (id \notin issued /\ id \in issued') => sessions'[id].expiry <= now + TTL
       /\ \A c \in settlers(CallIds) :
            calls[c].id = id => sessions'[id].expiry <= calls[c].expiresAt]_vars

\* memoryStore.get or memoryStore.setex runs in this step
storeTouched ==
  \/ issued' # issued
  \/ \E c \in CallIds : Called(c)
  \/ settlers(CallIds) # {}
  \/ calls' = calls /\ \E a \in out' : a.op = "route" /\ a.code \in {404, 500}

\* C29: after any get or setex no entry past its expiry remains in either
\* map, and a lookup answers the stored value exactly when the key was set
\* and its expiry has not passed
C29_StoreNeverAnswersExpired ==
  [][/\ storeTouched =>
          /\ \A i \in AppIds : store'[i] # NoDef => now <= store'[i].expiry
          /\ \A i \in AppIds : sessions'[i] # NoSession => now <= sessions'[i].expiry
          /\ \A i \in AppIds :
               (store[i] # NoDef /\ now <= store[i].expiry /\ i \in issued) => store'[i] = store[i]
     /\ \A c \in CallIds :
          (Called(c) /\ calls'[c].from = "route") =>
             /\ store[calls'[c].id] # NoDef
             /\ now <= store[calls'[c].id].expiry
             /\ calls'[c].createdAt = store[calls'[c].id].createdAt
             /\ calls'[c].expiresAt = store[calls'[c].id].expiresAt
     /\ \A a \in out' :
          (a.op = "route" /\ a.code = 404) => NoLiveDef(a.id)]_vars

\* a definition and a session past their expiry have been dropped while those
\* of another appId, not expired, are kept
C29_Witness ==
  \E i, j \in issued :
    /\ store[i] = NoDef /\ sessions[i] = NoSession
    /\ store[j] # NoDef /\ sessions[j] # NoSession
    /\ now <= store[j].expiry

\* C30: a createAppServer call that fails has evicted nothing and leaves the
\* registry and usedPorts as they were
C30_FailedCallCostsNothing ==
  [][\A c \in CallIds :
       /\ (~Finished(c) /\ calls'[c].pc = "rejected") =>
            /\ calls[c].victim = NoSrv
            /\ apps' = apps
            /\ usedPorts' = usedPorts
       /\ (Called(c) /\ calls'[c].pc = "rejected") =>
            /\ apps' = apps
            /\ usedPorts' = usedPorts
            /\ servers' = servers]_vars

\* C31: when the cleanups awaiting listener s resume, only the record of s
\* leaves the registry, and no port of an instance that stays registered
\* leaves usedPorts
C31_CleanupRemovesOnlyItsRecord ==
  [][\A s \in 1..Len(servers) :
       (servers[s].st = "closing" /\ servers'[s].st = "closed") =>
          /\ \A i \in 1..Len(apps) :
               apps[i].srv # s => /\ AppsHas(apps', apps[i].id)
                                  /\ AppsGet(apps', apps[i].id) = apps[i]
          /\ \A i \in 1..Len(apps') : apps'[i].port \in usedPorts']_vars

\* C32: /preview requests that miss on the same appId launch at most one
\* listener for it, and every listener that listens is the one the registry
\* holds for its appId
C32_OneLaunchPerMissedApp ==
  /\ \A i \in AppIds :
       Cardinality({s \in Listening(servers) : servers[s].id = i}) <= 1
  /\ \A s \in Listening(servers) :
       /\ AppsHas(apps, servers[s].id)
       /\ AppsGet(apps, servers[s].id).srv = s

\* C33: whenever getAppPort returns a port for an appId, a listener of that
\* appId is listening on that port
C33_RoutableIsListening ==
  \A id \in AppIds :
    getAppPort(apps, id) # NoPort =>
      \E s \in Listening(servers) :
        servers[s].id = id /\ servers[s].port = getAppPort(apps, id)

\* C34: whenever the status endpoint reports a session as live, the appId of
\* the session is registered
C34_LiveSessionIsRegistered ==
  [][\A a \in out' : (a.op = "live" /\ a.code = 200) => AppsHas(apps', a.id)]_vars

\* the createdAt and expiresAt that the stored definition, the calls in
\* progress and the registry hold for appId id
datings(id) ==
  {[createdAt |-> store[i].createdAt, expiresAt |-> store[i].expiresAt] :
     i \in {j \in {id} : store[j] # NoDef}}
  \cup {[createdAt |-> calls[c].createdAt, expiresAt |-> calls[c].expiresAt] :
          c \in {d \in CallIds : ~Finished(d) /\ calls[d].id = id}}
  \cup {[createdAt |-> apps[i].createdAt, expiresAt |-> apps[i].expiresAt] :
          i \in {j \in 1..Len(apps) : apps[j].id = id}}

\* C35: an instance relaunched from storage has the createdAt and expiresAt
\* of the original definition: every record of an appId carries the same
\* pair, expiresAt is createdAt plus the lifetime given at creation, and no
\* timer is armed for later than the expiry of its instance unless the
\* instance came up after it
C35_RehydrationKeepsAge ==
  /\ \A id \in AppIds :
       /\ Cardinality(datings(id)) <= 1
       /\ \A d \in datings(id) : d.expiresAt = d.createdAt + TTL
  /\ \A s, r \in 1..Len(servers) :
       servers[s].id = servers[r].id => servers[s].expiresAt = servers[r].expiresAt
  /\ \A i \in 1..Len(apps) : servers[apps[i].srv].expiresAt = apps[i].expiresAt
  /\ \A t \in timers :
       /\ t.at >= servers[t.srv].expiresAt
       /\ t.at <= (IF servers[t.srv].expiresAt > now THEN servers[t.srv].expiresAt ELSE now)

\* an app relaunched from storage after its first instance was reclaimed, and
\* registered with a createdAt that lies in the past
C35_Witness ==
  \E i \in 1..Len(apps) :
    /\ apps[i].createdAt < now
    /\ servers[apps[i].srv].st = "listening"
    /\ \E a \in out : a.op = "route" /\ a.code = 302 /\ a.id = apps[i].id
    /\ \E s \in 1..Len(servers) : servers[s].id = apps[i].id /\ servers[s].st = "closed"

\* C36: no createAppServer is started for an appId whose session is marked
\* failed
C36_FailedIsNotRehydrated ==
  [][\A c \in CallIds :
       (Called(c) /\ calls'[c].id # NoId) => sessions[calls'[c].id].status # "failed"]_vars

\* C39: findOldestAppId returns a registered appId whenever the registry is
\* not empty
C39_OldestOfNonEmptyIsSome ==
  Len(apps) > 0 => findOldestAppId(apps, now) \in AppsKeys(apps)

\* the port at which the loop of findAvailablePort goes on in this step
scanFrom(c) == IF calls[c].pc = "probing" THEN calls[c].port + 1 ELSE PortStart

\* the loop of findAvailablePort goes on in this step for call c
scans(c) ==
  /\ calls'[c] # calls[c]
  /\ \/ Finished(c) /\ ~(Len(apps) >= maxConcurrentApps /\ findOldestAppId(apps, now) # NoId)
     \/ calls[c].pc = "evicting"
     \/ calls[c].pc = "probing" /\ calls'[c].pc # "listening"

\* C38: findAvailablePort probes the ports of the range in increasing order,
\* passing over exactly those in usedPorts; it goes past a probed port only
\* if the probe failed, returns the first port whose probe passes, fails only
\* when every port left is in usedPorts, and leaves usedPorts alone
C38_LowestFreePort ==
  [][\A c \in CallIds :
       /\ (scans(c) /\ calls'[c].pc = "probing") =>
            /\ calls'[c].port \in scanFrom(c)..PortEnd
            /\ calls'[c].port \notin usedPorts'
            /\ \A q \in scanFrom(c)..(calls'[c].port - 1) : q \in usedPorts'
       /\ (scans(c) /\ calls'[c].pc # "probing") =>
            /\ calls'[c].pc = "rejected"
            /\ calls'[c].err = "No available ports"
            /\ \A q \in scanFrom(c)..PortEnd : q \in usedPorts'
       /\ (calls[c].pc = "probing" /\ calls'[c] # calls[c]) =>
            /\ usedPorts' = usedPorts
            /\ IF calls'[c].pc = "listening"
                 THEN /\ calls'[c].port = calls[c].port
                      /\ calls[c].port \notin BoundPorts(servers)
                 ELSE calls[c].port \in BoundPorts(servers) \/ faults' > faults
       /\ (Finished(c) /\ calls'[c] # calls[c]) => usedPorts' = usedPorts]_vars

\* a call was returned a port above the first of the range, the ports below
\* being in usedPorts
C38_Witness ==
  \E c \in CallIds :
    /\ calls[c].pc = "listening"
    /\ calls[c].port > PortStart
    /\ \A q \in PortStart..(calls[c].port - 1) : q \in usedPorts

\* C37: createStackBlitzPreview never throws; when the backend fails or
\* resolves without a sandbox id the result has success false, empty
\* previewUrl and embedHtml and the message of the failure; a result with
\* success true carries the previewUrl built from a non-empty sandbox id; and
\* POST /api/preview answers a result with success false with an error
C37_PreviewFailureIsAResult ==
  preview.pc = "answered" =>
    LET b == preview.backend
        r == preview.outcome.value
        failed == preview.files = "null" \/ b.kind # "returns" \/ b.id = ""
    IN /\ ~preview.outcome.thrown
       /\ failed => /\ ~r.success
                    /\ r.previewUrl = <<>>
                    /\ r.embedHtml = <<>>
                    /\ b.kind = "throws" => r.error = b.msg
                    /\ b.kind # "throws" => r.error # ""
       /\ r.success => /\ b.kind = "returns"
                       /\ b.id # ""
                       /\ Len(r.previewUrl) = 3
                       /\ r.previewUrl[2] = b.id
                       /\ r.sandboxId = b.id
       /\ ~r.success => /\ preview.response.code = 500
                        /\ ~preview.response.success
                        /\ preview.response.error # ""
       /\ r.success => /\ preview.response.code = 200
                       /\ preview.response.success
                       /\ preview.response.previewUrl = r.previewUrl

\* the backend resolved with a response that carries no sandbox id, and the
\* request was answered with an error
C37_Witness ==
  /\ preview.pc = "answered"
  /\ preview.backend.kind = "returns"
  /\ preview.backend.id = ""
  /\ preview.response.code = 500

\* ---- fairness: time passes, timers fire, I/O completes ----
FairSpec ==
  /\ Spec
  /\ WF_vars(Tick)
  /\ \A t \in TimerSet : WF_vars(TimerFire(t))
  /\ \A s \in 1..MaxServers : WF_vars(ServerClosed(s))
  /\ \A c \in CallIds : WF_vars(ProbeFree(c) \/ ProbeBusy(c))
  /\ \A c \in CallIds : WF_vars(ListenOk(c) \/ ListenError(c))

\* C6: an instance whose expiry time has passed is eventually reclaimed: its
\* appId leaves the registry and its port leaves usedPorts
C6_ExpiredEventuallyReclaimed ==
  \A s \in 1..MaxServers :
    (s <= Len(servers) /\ servers[s].st = "listening" /\ now >= servers[s].expiresAt)
      ~> (s <= Len(servers) /\ ~AppsHas(apps, servers[s].id) /\ servers[s].port \notin usedPorts)

\* ---- fairness when client connections may stay open ----
\* server.close() emits 'close' only once every connection has ended: with a
\* connection kept open the event is never emitted, so nothing guarantees
\* ServerClosed; everything else is scheduled as in FairSpec
OpenConnectionsSpec ==
  /\ Spec
  /\ WF_vars(Tick)
  /\ \A t \in TimerSet : WF_vars(TimerFire(t))
  /\ \A c \in CallIds : WF_vars(ProbeFree(c) \/ ProbeBusy(c))
  /\ \A c \in CallIds : WF_vars(ListenOk(c) \/ ListenError(c))

\* C26: every cleanupAppServer awaiting a listener eventually completes with
\* the listener closed, and every createAppServer that evicts eventually
\* resolves or rejects, even if the listener never reports that it has closed
C26_CleanupEventuallyCompletes ==
  /\ \A s \in 1..MaxServers :
       (Awaiting(s) > 0) ~> (s <= Len(servers) /\ servers[s].st = "closed" /\ Awaiting(s) = 0)
  /\ \A c \in CallIds :
       (calls[c].pc = "evicting") ~> (calls[c].pc \in {"resolved", "rejected"})
====
